---- MODULE Spec2Model ----
(***************************************************************************)
(* Barby concert bot: the snapshot-diff-and-notify pipeline.               *)
(*                                                                         *)
(*   lambda_handler        src/aws_lambda/lambda_function.py               *)
(*   BarbyConcertNotifier  src/aws_lambda/lambda_function.py               *)
(*   RedisConcertCache     src/redis_logic/redis_concert_cache.py          *)
(*   BarbyApiScraper       src/src/barby_api_scraper.py                    *)
(*                                                                         *)
(* Strings the code takes apart (Redis keys, show ids, error messages) are *)
(* sequences of tokens: ":" is a token of its own, so that split(":") and  *)
(* the prefix match of KEYS "barby:concert:*" are computed, not assumed.   *)
(* Python dicts are functions whose DOMAIN is the dict's key set.          *)
(***************************************************************************)
EXTENDS Integers, Sequences, FiniteSets, TLC

\* ------------------------------------------------------------------ bounds
MaxFetch == 2
MaxInvocations == 2
MaxItems == 2
MaxUsers == 2
MaxLambdaUsers == 1
MaxOps == 4
MaxDiffFetch == 3

\* ------------------------------------------------------- sequence helpers
Range(s) == {s[i] : i \in 1..Len(s)}

SeqsUpTo(S, n) == UNION {[1..k -> S] : k \in 0..n}

NoDup(s) == \A i, j \in 1..Len(s) : i # j => s[i] # s[j]

Last(s) == s[Len(s)]

\* ---------------------------------------------------------- upstream data
\* showId values as the upstream API sends them (strings).
IdPlain == <<"5286">>
IdColon == <<"12", ":", "77">>
NoDate == <<>>

\* Raw show objects of the upstream listing (the fields the code reads).
RawShow(id, name, date, price, image) ==
    [showId |-> id, showName |-> name, showDate |-> date,
     showPrice |-> price, showImage |-> image]

\* A raw show that also carries a showTitle.
Titled(show, title) == [f \in DOMAIN show \cup {"showTitle"} |->
                          IF f = "showTitle" THEN title ELSE show[f]]

ShowA == Titled(RawShow(IdPlain, "Moshik", <<20, 8, 2025>>, "185", "moshik.jpg"),
                "Shover Shtika")
ShowAPrice == RawShow(IdPlain, "Moshik", <<20, 8, 2025>>, "", "moshik.jpg")
ShowB == RawShow(IdColon, "Berry", <<1, 1, 2025>>, "90", "")

Catalogue == {ShowA, ShowAPrice, ShowB}

\* A show on the evening of ShowA, for the lists the diff is studied on.
IdOther == <<"5300">>
ShowC == RawShow(IdOther, "Noa", <<20, 8, 2025>>, "120", "")

DiffShows == Catalogue \cup {ShowC}

\* What the API may answer in one fetch: a list of raw shows.
UpstreamLists == SeqsUpTo(Catalogue, MaxFetch)

\* ------------------------------------------------------------ dict helper
Get(d, f, default) == IF f \in DOMAIN d THEN d[f] ELSE default

\* ------------------------------------------------- BarbyApiScraper (parse)
None == [kind |-> "none", v |-> 0]

\* datetime.strptime(show_date, "%d/%m/%Y"): a value ordered by calendar day.
strptime(date) == [kind |-> "datetime", v |-> date[3] * 372 + date[2] * 31 + date[1]]

isoformat(dt) == [kind |-> "isostring", v |-> dt.v]

parse_show(show_data) ==
    LET show_id == Get(show_data, "showId", <<>>)
        show_date == Get(show_data, "showDate", NoDate)
        show_name == Get(show_data, "showName", "Unknown Artist")
        show_title == Get(show_data, "showTitle", "")
    IN  [show_id |-> show_id,
         artist |-> show_name,
         title |-> IF show_title # "" THEN show_title ELSE show_name,
         full_title |-> show_title,
         date |-> show_date,
         event_date |-> IF show_date # NoDate THEN strptime(show_date) ELSE None,
         price |-> Get(show_data, "showPrice", ""),
         raw_data |-> show_data]

\* key=lambda x: x["event_date"] or datetime.min
SortKey(show) == IF show.event_date.kind = "datetime" THEN show.event_date.v ELSE 0

RECURSIVE InsertSorted(_, _)
InsertSorted(sorted, x) ==
    IF sorted = <<>> THEN <<x>>
    ELSE IF SortKey(Last(sorted)) <= SortKey(x) THEN Append(sorted, x)
    ELSE Append(InsertSorted(SubSeq(sorted, 1, Len(sorted) - 1), x), Last(sorted))

\* list.sort is stable: equal keys keep their input order.
RECURSIVE SortByDate(_)
SortByDate(shows) ==
    IF shows = <<>> THEN <<>>
    ELSE InsertSorted(SortByDate(SubSeq(shows, 1, Len(shows) - 1)), Last(shows))

\* get_concerts on the API's answer; api_ok = FALSE is get_shows_raw() = None.
get_concerts(api_ok, shows_data) ==
    IF ~api_ok THEN <<>>
    ELSE SortByDate([i \in 1..Len(shows_data) |-> parse_show(shows_data[i])])

\* ------------------------------------------------------------- Redis keys
ConcertPrefix == <<"barby", ":", "concert", ":">>

get_concert_key(concert_id) == ConcertPrefix \o concert_id

get_metadata_key == <<"barby", ":", "metadata">>

\* KEYS "barby:concert:*"
MatchesConcertPattern(key) ==
    /\ Len(key) >= Len(ConcertPrefix)
    /\ SubSeq(key, 1, Len(ConcertPrefix)) = ConcertPrefix

RedisKeys(db) == {k \in DOMAIN db : MatchesConcertPattern(k)}

\* key.split(":")[-1]: the tokens after the last ":" of the key.
SplitLast(key) ==
    LET colons == {i \in 1..Len(key) : key[i] = ":"}
        cut == IF colons = {} THEN 0 ELSE CHOOSE i \in colons : \A j \in colons : j <= i
    IN  SubSeq(key, cut + 1, Len(key))

\* Function helpers for the Redis keyspace (a function on the existing keys).
EmptyMap == [k \in {} |-> None]

MapSet(m, k, v) == [x \in DOMAIN m \cup {k} |-> IF x = k THEN v ELSE m[x]]

MapDel(m, ks) == [x \in DOMAIN m \ ks |-> m[x]]

\* ------------------------------------------ RedisConcertCache (snapshot)
\* An ordered dict is a sequence of [k, v] entries with distinct k.
DictKeys(d) == {d[i].k : i \in 1..Len(d)}

\* A mapping that keeps the value it has for a key.
DictPut_KeepFirst(d, k, v) ==
    IF k \in DictKeys(d) THEN d ELSE Append(d, [k |-> k, v |-> v])

DictPut(d, k, v) ==
    IF k \in DictKeys(d)
    THEN [i \in 1..Len(d) |-> IF d[i].k = k THEN [k |-> k, v |-> v] ELSE d[i]]
    ELSE Append(d, [k |-> k, v |-> v])

\* {concert["show_id"]: concert for concert in concerts}
RECURSIVE DictByShowId(_)
DictByShowId(cs) ==
    IF cs = <<>> THEN <<>>
    ELSE DictPut(DictByShowId(SubSeq(cs, 1, Len(cs) - 1)),
                 Last(cs).show_id, Last(cs))

\* concert_copy of save_state as it is serialised: event_date as an ISO
\* string when set, raw_data dropped.
StoredForm(concert) ==
    [f \in DOMAIN concert \ {"raw_data"} |->
        IF f = "event_date" /\ concert[f].kind = "datetime"
        THEN isoformat(concert[f]) ELSE concert[f]]

Metadata(n, now) == [last_check |-> now, total_concerts |-> n, updated_at |-> now]

RECURSIVE SetexAll(_, _)
SetexAll(db, d) ==
    IF d = <<>> THEN db
    ELSE MapSet(SetexAll(db, SubSeq(d, 1, Len(d) - 1)),
                get_concert_key(Last(d).k), StoredForm(Last(d).v))

\* A save that writes over the store without the DEL of the old keys.
PipelineExecute_NoDelete(db, old, d, now) ==
    MapSet(SetexAll(db, d), get_metadata_key, Metadata(Len(d), now))

\* pipe.execute(): DEL old_keys, SETEX every concert, SETEX the metadata, as
\* one MULTI/EXEC transaction.
PipelineExecute(db, old, d, now) ==
    MapSet(SetexAll(MapDel(db, old), d), get_metadata_key, Metadata(Len(d), now))

\* One turn of load_last_state's loop: GET key, and keep the value under the
\* id taken from the key when the key still holds one.
LoadOne(acc, key, db) ==
    IF key \in DOMAIN db THEN MapSet(acc, SplitLast(key), db[key]) ELSE acc

\* load_last_state run to its end with nothing interleaved and no error.
RECURSIVE LoadKeysInto(_, _, _)
LoadKeysInto(acc, keys, db) ==
    IF keys = {} THEN acc
    ELSE LET key == CHOOSE k \in keys : TRUE
         IN  LoadKeysInto(LoadOne(acc, key, db), keys \ {key}, db)

LoadAll(db) == LoadKeysInto(EmptyMap, RedisKeys(db), db)

\* The keyspace after a save_state of the concerts of one fetch.
SavedSnapshot(shows) ==
    PipelineExecute(EmptyMap, {}, DictByShowId(get_concerts(TRUE, shows)), 0)

\* ------------------------------------------------------------ Diff (lambda)
\* A diff that also reports an id whose stored record differs.
RECURSIVE compute_new_OrChanged(_, _)
compute_new_OrChanged(current, last) ==
    IF current = <<>> THEN <<>>
    ELSE LET rest == compute_new_OrChanged(SubSeq(current, 1, Len(current) - 1), last)
             e == Last(current)
         IN  IF e.k \notin DOMAIN last \/ last[e.k] # StoredForm(e.v)
             THEN Append(rest, e.v) ELSE rest

\* A diff that puts each new record in front of the ones found before it.
RECURSIVE compute_new_Reversed(_, _)
compute_new_Reversed(current, last) ==
    IF current = <<>> THEN <<>>
    ELSE LET rest == compute_new_Reversed(SubSeq(current, 1, Len(current) - 1), last)
             e == Last(current)
         IN  IF e.k \notin DOMAIN last THEN <<e.v>> \o rest ELSE rest

\* for concert_id, concert in current_concerts.items():
\*     if concert_id not in last_concerts: new_concerts.append(concert)
RECURSIVE compute_new(_, _)
compute_new(current, last) ==
    IF current = <<>> THEN <<>>
    ELSE LET rest == compute_new(SubSeq(current, 1, Len(current) - 1), last)
             e == Last(current)
         IN  IF e.k \notin DOMAIN last THEN Append(rest, e.v) ELSE rest

\* ----------------------------------------------------- delivery transport
\* Error messages of the transport, as token sequences (<<>>: no error).
NoError == <<>>
ErrTimeout == <<"Timed out">>
ErrChat == <<"Chat not found">>
ErrBlocked == <<"Forbidden: ", "bot was blocked", " by the user">>
ErrPhoto == <<"Bad Request: ", "Photo", "_invalid_dimensions">>
ErrPhotoChat == <<"Failed to send ", "photo", ": ", "chat not found">>

TransportErrors == {ErrTimeout, ErrChat, ErrBlocked, ErrPhoto, ErrPhotoChat}

FallbackErrors == {ErrTimeout, ErrChat}

RedisError == <<"Connection refused">>

\* str.lower(), token by token.
LowerToken(t) ==
    CASE t = "Chat not found" -> "chat not found"
      [] t = "Photo" -> "photo"
      [] t = "Forbidden: " -> "forbidden: "
      [] t = "Bad Request: " -> "bad request: "
      [] t = "Timed out" -> "timed out"
      [] t = "Failed to send " -> "failed to send "
      [] t = "Connection refused" -> "connection refused"
      [] OTHER -> t

Lower(msg) == [i \in 1..Len(msg) |-> LowerToken(msg[i])]

\* phrase in msg
Contains(msg, phrase) == \E i \in 1..Len(msg) : msg[i] = phrase

\* A case-sensitive attachment test.
IsAttachmentError_CaseSensitive(e, image_url) == Contains(e, "photo") /\ image_url # <<>>

\* "photo" in str(e).lower() and image_url
IsAttachmentError(e, image_url) == Contains(Lower(e), "photo") /\ image_url # <<>>

\* A permanent test that knows one phrase only.
IsPermanentError_ChatOnly(e) == Contains(Lower(e), "chat not found")

\* "chat not found" in str(e).lower() or "bot was blocked" in str(e).lower()
IsPermanentError(e) ==
    Contains(Lower(e), "chat not found") \/ Contains(Lower(e), "bot was blocked")

\* ------------------------------------------------ BarbyConcertNotifier
NoImage == <<>>

get_concert_image_url(concert) ==
    LET show_image == Get(concert, "showImage", "")
    IN  IF show_image # "" THEN <<"https://images.barby.co.il/Logos/", show_image>>
        ELSE NoImage

\* len(s.strip()) > 3 on the strings of the model: "" and "EP" are the
\* ones of at most three characters.
LongerThan3(s) == s \notin {"", "EP"}

\* A formatter that prints the price line from the price as it is.
format_message_NoTBA(concert) ==
    [artist |-> Get(concert, "showName", "Unknown Artist"),
     title_line |-> <<>>,
     date_text |-> <<"TBA">>,
     price_text |-> <<"NIS", Get(concert, "showPrice", "")>>]

\* The lines of the message that depend on the concert: artist, title line
\* (when there is one), date and price.
format_single_concert_message(concert) ==
    LET artist == Get(concert, "showName", "Unknown Artist")
        title == Get(concert, "showTitle", "")
        date == Get(concert, "showDate", NoDate)
        price == Get(concert, "showPrice", "")
    IN  [artist |-> artist,
         title_line |-> IF title # "" /\ title # artist /\ LongerThan3(title)
                        THEN <<title>> ELSE <<>>,
         date_text |-> IF date # NoDate THEN <<"on", date>> ELSE <<"TBA">>,
         price_text |-> IF price # "" THEN <<"NIS", price>> ELSE <<"TBA">>]

\* Registry hash barby:subscribers, in insertion order.
FirstNames == {"Ido", "Dana"}

\* add_subscriber, lines 188-193: the value stored for a user (username is
\* left out: it is written and never read).
user_data(user_id, first_name, now) ==
    [user_id |-> user_id, first_name |-> first_name, subscribed_at |-> now]

Subscriber(u) == user_data(u, "Ido", 0)

UserIds(list) == {list[i].user_id : i \in 1..Len(list)}

\* HDEL barby:subscribers <user_id>
hdel(hash, u) ==
    LET keep == {i \in 1..Len(hash) : hash[i].user_id # u}
        F[i \in 0..Len(hash)] ==
            IF i = 0 THEN <<>>
            ELSE IF i \in keep THEN Append(F[i - 1], hash[i]) ELSE F[i - 1]
    IN  F[Len(hash)]

\* An HSET that adds an entry whatever the hash holds.
hset_Append(hash, u, data) == Append(hash, data)

\* HSET barby:subscribers <user_id> <json>: a field already there keeps
\* its place and takes the new value.
hset(hash, u, data) ==
    IF u \in UserIds(hash)
    THEN [i \in 1..Len(hash) |-> IF hash[i].user_id = u THEN data ELSE hash[i]]
    ELSE Append(hash, data)

\* ------------------------------------------------------------------ state
VARIABLES
    redis,            \* Redis string keys: key -> stored JSON value
    expired,          \* ghost: the keys' TTL ran out since the last invocation
    subscribers,      \* Redis hash barby:subscribers, in insertion order
    pc,               \* where the running invocation stands
    inv,              \* invocations started so far (also the clock)
    fetched,          \* ghost: what the API answered in this invocation
    current_concerts, \* lambda_handler: dict show_id -> concert
    concert_keys,     \* load_last_state: keys still to GET
    loaded,           \* load_last_state: its local dict "concerts"
    last_concerts,    \* lambda_handler: the loaded snapshot
    last_check,       \* load_last_state: the timestamp returned (0: None)
    new_concerts,     \* lambda_handler: the diff
    old_keys,         \* save_state: the keys listed for deletion
    notify_items,     \* notify_new_concerts: its argument
    item_i,           \* notify_new_concerts: index of the concert in hand
    subs_copy,        \* send_concert_notification: subscribers.copy()
    sub_i,            \* send_concert_notification: index in subs_copy
    pending_err,      \* send_concert_notification: e, while the fallback runs
    result,           \* what the invocation returned
    calls,            \* ghost: the external calls of this invocation, in order
    prev,             \* ghost: summary of the invocation before this one,
                      \*        and the store as this one found it
    w_pc,             \* an overlapping save_state: where it stands
    w_old_keys,       \* an overlapping save_state: its old_keys
    w_concerts,       \* an overlapping save_state: its argument
    w_before,         \* ghost: the keyspace just before the overlapping EXEC
    bot               \* the bot process: the command handler that is running

storeVars == <<redis, expired, subscribers>>
loadVars == <<concert_keys, loaded, last_concerts, last_check>>
lambdaVars == <<fetched, current_concerts, new_concerts, old_keys>>
notifyVars == <<notify_items, item_i, subs_copy, sub_i, pending_err>>
writerVars == <<w_pc, w_old_keys, w_concerts, w_before>>
vars == <<redis, expired, subscribers, pc, inv, fetched, current_concerts,
          concert_keys, loaded, last_concerts, last_check, new_concerts,
          old_keys, notify_items, item_i, subs_copy, sub_i, pending_err,
          result, calls, prev, w_pc, w_old_keys, w_concerts, w_before, bot>>

\* One external call, as the log keeps it.
Call(op, role, user, item, err, list) ==
    [op |-> op, role |-> role, user |-> user, item |-> item, err |-> err,
     list |-> list]

RedisCall(op, ok) ==
    Call(op, "redis", 0, 0, IF ok THEN NoError ELSE RedisError, <<>>)

DispatchPcs == {"notify", "item", "send", "fallback"}

NoPrev ==
    [valid |-> FALSE, fetched |-> [ok |-> FALSE, shows |-> <<>>],
     persist |-> FALSE, save_ok |-> FALSE, aborted |-> FALSE, expired |-> FALSE,
     redis |-> EmptyMap, subscribers |-> <<>>]

SaveOk(log) == \E i \in 1..Len(log) : log[i].op = "pipe.execute" /\ log[i].err = NoError

\* Registry contents the model starts from: any order of any set of users.
Registries(n) ==
    {[i \in 1..Len(s) |-> Subscriber(s[i])] : s \in {t \in SeqsUpTo(1..n, n) : NoDup(t)}}

\* No command is being handled (member is a ghost: whether the user was in
\* the registry when the reply was sent).
BotIdle ==
    [pc |-> "idle", cmd |-> "none", user |-> 0, exists |-> FALSE,
     reply |-> "none", member |-> FALSE]

InitLocals ==
    /\ expired = FALSE
    /\ pc = "idle"
    /\ inv = 0
    /\ fetched = [ok |-> FALSE, shows |-> <<>>]
    /\ current_concerts = <<>>
    /\ concert_keys = {}
    /\ loaded = EmptyMap
    /\ last_concerts = EmptyMap
    /\ last_check = 0
    /\ new_concerts = <<>>
    /\ old_keys = {}
    /\ notify_items = <<>>
    /\ item_i = 0
    /\ subs_copy = <<>>
    /\ sub_i = 0
    /\ pending_err = NoError
    /\ result = "none"
    /\ calls = <<>>
    /\ prev = NoPrev
    /\ w_pc = "idle"
    /\ w_old_keys = {}
    /\ w_concerts = <<>>
    /\ w_before = EmptyMap
    /\ bot = BotIdle

Init ==
    /\ redis = EmptyMap
    /\ subscribers \in Registries(MaxLambdaUsers)
    /\ InitLocals

\* --------------------------------------------------------- lambda_handler
\* A handler that loads the snapshot whatever the fetch gave.
AfterFetch_LoadAnyway(concerts) == "load_keys"

\* Lines 174-179: if not concerts: return {... "No concerts found"}.
AfterFetch(concerts) == IF concerts # <<>> THEN "load_keys" ELSE "done"

\* Lines 160-179: construct the collaborators (the cache pings Redis and
\* raises when that fails), fetch, return early on no concerts, key the
\* concerts by show_id.
Invoke ==
    /\ pc \in {"idle", "done"}
    /\ inv < MaxInvocations
    /\ inv' = inv + 1
    /\ prev' = [valid |-> pc = "done", fetched |-> fetched,
                persist |-> new_concerts # <<>>, save_ok |-> SaveOk(calls),
                aborted |-> result = "aborted", expired |-> expired,
                redis |-> redis, subscribers |-> subscribers]
    /\ expired' = FALSE
    /\ \E ping_ok \in BOOLEAN, api_ok \in BOOLEAN, shows \in UpstreamLists :
        /\ (~ping_ok \/ ~api_ok) => shows = <<>>
        /\ ~ping_ok => api_ok
        /\ LET cs == get_concerts(api_ok, shows)
           IN  /\ fetched' = [ok |-> api_ok /\ ping_ok, shows |-> shows]
               /\ calls' = <<RedisCall("ping", ping_ok)>>
               /\ current_concerts' = IF ping_ok THEN DictByShowId(cs) ELSE <<>>
               /\ pc' = IF ping_ok THEN AfterFetch(cs) ELSE "done"
               /\ result' = IF ~ping_ok THEN "None"
                            ELSE IF cs = <<>> THEN "No concerts found" ELSE "none"
    /\ concert_keys' = {}
    /\ loaded' = EmptyMap
    /\ last_concerts' = EmptyMap
    /\ last_check' = 0
    /\ new_concerts' = <<>>
    /\ old_keys' = {}
    /\ notify_items' = <<>>
    /\ item_i' = 0
    /\ subs_copy' = <<>>
    /\ sub_i' = 0
    /\ pending_err' = NoError
    /\ UNCHANGED <<redis, subscribers, writerVars, bot>>

\* A load that returns what it had read when the error came.
load_except_Partial(concerts) == [concerts |-> concerts, last_check |-> 0]

\* load_last_state, lines 84-86: except Exception: return {}, None
\* (last_check 0 stands for None).
load_except(concerts) == [concerts |-> EmptyMap, last_check |-> 0]

\* load_last_state, line 59: KEYS barby:concert:*; any error returns ({}, None).
LoadKeys ==
    /\ pc = "load_keys"
    /\ \E ok \in BOOLEAN :
        /\ calls' = Append(calls, RedisCall("keys", ok))
        /\ concert_keys' = IF ok THEN RedisKeys(redis) ELSE {}
        /\ pc' = IF ~ok THEN "diff"
                 ELSE IF RedisKeys(redis) = {} THEN "load_meta" ELSE "load_get"
        /\ last_concerts' = IF ok THEN last_concerts ELSE load_except(EmptyMap).concerts
        /\ last_check' = IF ok THEN last_check ELSE load_except(EmptyMap).last_check
    /\ loaded' = EmptyMap
    /\ UNCHANGED <<storeVars, inv, lambdaVars, notifyVars, result, prev, writerVars, bot>>

\* load_last_state, lines 64-69: GET one of the listed keys.
LoadGet ==
    /\ pc = "load_get"
    /\ \E key \in concert_keys, ok \in BOOLEAN :
        /\ calls' = Append(calls, RedisCall("get", ok))
        /\ concert_keys' = IF ok THEN concert_keys \ {key} ELSE {}
        /\ loaded' = IF ok THEN LoadOne(loaded, key, redis) ELSE EmptyMap
        /\ pc' = IF ~ok THEN "diff"
                 ELSE IF concert_keys = {key} THEN "load_meta" ELSE "load_get"
        /\ last_concerts' = IF ok THEN last_concerts ELSE load_except(loaded).concerts
        /\ last_check' = IF ok THEN last_check ELSE load_except(loaded).last_check
    /\ UNCHANGED <<storeVars, inv, lambdaVars, notifyVars, result, prev, writerVars, bot>>

\* load_last_state, lines 72-86: GET the metadata and return.
LoadMeta ==
    /\ pc = "load_meta"
    /\ \E ok \in BOOLEAN :
        /\ calls' = Append(calls, RedisCall("get_metadata", ok))
        /\ last_concerts' = IF ok THEN loaded ELSE load_except(loaded).concerts
        /\ last_check' = IF ~ok THEN load_except(loaded).last_check
                         ELSE IF get_metadata_key \in DOMAIN redis
                         THEN redis[get_metadata_key].last_check ELSE 0
    /\ pc' = "diff"
    /\ loaded' = EmptyMap
    /\ UNCHANGED <<storeVars, inv, lambdaVars, concert_keys, notifyVars,
                   result, prev, writerVars, bot>>

\* A handler that saves whatever the diff.
AfterDiff_AlwaysSave(new) == "save_keys"

\* A handler that notifies before it saves.
AfterDiff_NotifyFirst(new) == IF new # <<>> THEN "notify" ELSE "done"

\* Lines 190-200: where lambda_handler goes once the diff is known.
AfterDiff(new) == IF new # <<>> THEN "save_keys" ELSE "done"

\* Lines 185-200: the diff, and the return when nothing is new.
Diff ==
    /\ pc = "diff"
    /\ new_concerts' = compute_new(current_concerts, last_concerts)
    /\ pc' = AfterDiff(new_concerts')
    /\ notify_items' = new_concerts'
    /\ result' = IF pc' = "done" THEN "Success!" ELSE result
    /\ UNCHANGED <<storeVars, inv, fetched, current_concerts, old_keys, loadVars,
                   item_i, subs_copy, sub_i, pending_err, calls, prev, writerVars, bot>>

\* A save whose error goes up through the handler to the host.
AfterSave_Raise(ok) == IF ok THEN "notify" ELSE "raised"

\* Lines 129-130 and 194-197: save_state catches every error and returns
\* nothing, and lambda_handler goes on to notify.
AfterSave(ok) == "notify"

\* save_state, line 96: KEYS barby:concert:* for the keys to delete.
SaveKeys ==
    /\ pc = "save_keys"
    /\ \E ok \in BOOLEAN :
        /\ calls' = Append(calls, RedisCall("save.keys", ok))
        /\ old_keys' = IF ok THEN RedisKeys(redis) ELSE {}
        /\ pc' = IF ok THEN "save_exec" ELSE AfterSave(FALSE)
    /\ UNCHANGED <<storeVars, inv, fetched, current_concerts, new_concerts,
                   loadVars, notifyVars, result, prev, writerVars, bot>>

\* save_state, lines 100-130: queue the writes and EXEC them.
SaveExec ==
    /\ pc = "save_exec"
    /\ \E ok \in BOOLEAN :
        /\ calls' = Append(calls, RedisCall("pipe.execute", ok))
        /\ redis' = IF ok THEN PipelineExecute(redis, old_keys, current_concerts, inv)
                    ELSE redis
        /\ pc' = AfterSave(ok)
    /\ old_keys' = {}
    /\ UNCHANGED <<expired, subscribers, inv, fetched, current_concerts,
                   new_concerts, loadVars, notifyVars, result, prev, writerVars, bot>>

\* ----------------------------------------------------- notify_new_concerts
\* Loops nested the other way round: all the items for one subscriber,
\* then the next subscriber.
NextPosition_SubscriberFirst(si, n, ii, m) ==
    IF si = 0 /\ n > 0 THEN [pc |-> "send", sub_i |-> 1, item_i |-> ii]
    ELSE IF ii < m
         THEN [pc |-> IF n > 0 THEN "send" ELSE "item", sub_i |-> si, item_i |-> ii + 1]
    ELSE IF si < n THEN [pc |-> "send", sub_i |-> si + 1, item_i |-> 1]
    ELSE [pc |-> "done", sub_i |-> 0, item_i |-> ii]

\* Where the loops of notify_new_concerts / send_concert_notification stand
\* after the subscriber at index si (of n) of item ii (of m) is dealt with.
NextPosition(si, n, ii, m) ==
    IF si < n THEN [pc |-> "send", sub_i |-> si + 1, item_i |-> ii]
    ELSE IF ii < m THEN [pc |-> "item", sub_i |-> 0, item_i |-> ii + 1]
    ELSE [pc |-> "done", sub_i |-> 0, item_i |-> ii]

\* A loop that steps over the subscriber after a failed one, as a loop
\* over a list that lost the failed entry would.
AfterFailedDelivery_SkipNext(si, n, ii, m) ==
    NextPosition(IF si < n THEN si + 1 ELSE si, n, ii, m)

\* A loop that tries the failed subscriber again.
AfterFailedDelivery_Retry(si, n, ii, m) == NextPosition(si - 1, n, ii, m)

\* A failed delivery that ends the subscriber loop of the item.
AfterFailedDelivery_Break(si, n, ii, m) == NextPosition(n, n, ii, m)

\* Lines 80-102: the except block ends and the for loop takes the next
\* subscriber.
AfterFailedDelivery(si, n, ii, m) == NextPosition(si, n, ii, m)

\* A notifier that counts the subscribers even for an empty batch.
EmptyBatch_Never(items) == FALSE

\* Lines 29-30: if not new_concerts: return
EmptyBatch(items) == items = <<>>

\* A notifier that goes on with a count of 0.
NoSubscribers_Never(n) == FALSE

\* Lines 33-35: if num_of_subscribers == 0: return
NoSubscribers(n) == n = 0

\* get_subscriber_count, lines 234-240, as the log keeps it: the count
\* returned (0 when HLEN raised) is kept in the field item.
CountCall(n, ok) ==
    Call("hlen", "redis", 0, n, IF ok THEN NoError ELSE RedisError, <<>>)

\* Lines 27-35: the two early returns, then the first item.
NotifyStart ==
    /\ pc = "notify"
    /\ IF EmptyBatch(notify_items)
       THEN /\ pc' = "done"
            /\ calls' = calls
            /\ item_i' = 0
       ELSE \E ok \in BOOLEAN :
            LET num_of_subscribers == IF ok THEN Len(subscribers) ELSE 0
            IN  /\ calls' = Append(calls, CountCall(num_of_subscribers, ok))
                /\ pc' = IF NoSubscribers(num_of_subscribers) THEN "done" ELSE "item"
                /\ item_i' = IF NoSubscribers(num_of_subscribers) THEN 0 ELSE 1
    /\ result' = IF pc' = "done" THEN "Success!" ELSE result
    /\ UNCHANGED <<storeVars, inv, lambdaVars, loadVars, notify_items, subs_copy,
                   sub_i, pending_err, prev, writerVars, bot>>

\* A notifier that reads the registry for the first item and keeps that
\* list for the items after it.
get_all_subscribers_Once(ok) ==
    IF item_i > 1 THEN subs_copy ELSE IF ok THEN subscribers ELSE <<>>

\* get_all_subscribers, lines 214-228: the values of HGETALL, or [] when
\* the call raised.
get_all_subscribers(ok) == IF ok THEN subscribers ELSE <<>>

\* Lines 47-59: render, resolve the image, read the registry (an error
\* yields []), copy the list.
ItemStart ==
    /\ pc = "item"
    /\ \E ok \in BOOLEAN :
        LET list == get_all_subscribers(ok)
            ids == [i \in 1..Len(list) |-> list[i].user_id]
            pos == NextPosition(0, Len(list), item_i, Len(notify_items))
        IN  /\ calls' = Append(calls, Call("hgetall", "redis", 0, item_i,
                                          IF ok THEN NoError ELSE RedisError, ids))
            /\ subs_copy' = list
            /\ pc' = pos.pc
            /\ sub_i' = pos.sub_i
            /\ item_i' = pos.item_i
    /\ result' = IF pc' = "done" THEN "Success!" ELSE result
    /\ UNCHANGED <<storeVars, inv, lambdaVars, loadVars, notify_items,
                   pending_err, prev, writerVars, bot>>

\* A dispatcher that removes the subscriber after any failed delivery.
Removal_AnyError(e, user, hdel_ok) ==
    IF e # NoError
    THEN [hash |-> hdel(subscribers, user),
          log |-> <<Call("hdel", "redis", user, item_i, NoError, <<>>)>>]
    ELSE [hash |-> subscribers, log |-> <<>>]

\* Lines 96-102: remove_subscriber when the primary error e is permanent;
\* HDEL may itself fail, which remove_subscriber swallows.
Removal(e, user, hdel_ok) ==
    IF IsPermanentError(e)
    THEN [hash |-> IF hdel_ok THEN hdel(subscribers, user) ELSE subscribers,
          log |-> <<Call("hdel", "redis", user, item_i,
                         IF hdel_ok THEN NoError ELSE RedisError, <<>>)>>]
    ELSE [hash |-> subscribers, log |-> <<>>]

\* Lines 59-102, up to the next await: the primary send to the subscriber
\* in hand and what follows it without another transport call.
SendPrimary ==
    /\ pc = "send"
    /\ LET user_id == subs_copy[sub_i].user_id
           concert == notify_items[item_i]
           message == format_single_concert_message(concert)
           image_url == get_concert_image_url(concert)
           op == IF image_url # NoImage THEN "send_photo" ELSE "send_message"
           n == Len(subs_copy)
           m == Len(notify_items)
       IN  \E e \in {NoError} \cup TransportErrors, hdel_ok \in BOOLEAN :
            LET sent == Call(op, "primary", user_id, item_i, e, <<message>>)
                rem == Removal(e, user_id, hdel_ok)
                pos == IF e = NoError THEN NextPosition(sub_i, n, item_i, m)
                       ELSE AfterFailedDelivery(sub_i, n, item_i, m)
            IN  /\ ~hdel_ok => (IsPermanentError(e) /\ ~IsAttachmentError(e, image_url))
                /\ IF e # NoError /\ IsAttachmentError(e, image_url)
                   THEN /\ pc' = "fallback"
                        /\ pending_err' = e
                        /\ calls' = Append(calls, sent)
                        /\ UNCHANGED <<subscribers, sub_i, item_i>>
                   ELSE /\ pc' = pos.pc
                        /\ sub_i' = pos.sub_i
                        /\ item_i' = pos.item_i
                        /\ pending_err' = NoError
                        /\ subscribers' = rem.hash
                        /\ calls' = Append(calls, sent) \o rem.log
    /\ result' = IF pc' = "done" THEN "Success!" ELSE result
    /\ UNCHANGED <<redis, expired, inv, lambdaVars, loadVars, notify_items,
                   subs_copy, prev, writerVars, bot>>

\* A notifier that classifies the error of the latest send.
ClassifiedError_Latest(primary, fallback) ==
    IF fallback # NoError THEN fallback ELSE primary

\* Lines 92-100: the bare except of the retry binds nothing, so str(e) at
\* line 97 is still the error of the primary send.
ClassifiedError(primary, fallback) == primary

\* Lines 86-102: the text-only retry (its own error is swallowed), then
\* the removal decided on the primary error.
SendFallback ==
    /\ pc = "fallback"
    /\ LET user_id == subs_copy[sub_i].user_id
           message == format_single_concert_message(notify_items[item_i])
           pos == AfterFailedDelivery(sub_i, Len(subs_copy), item_i, Len(notify_items))
       IN  \E e2 \in {NoError} \cup FallbackErrors, hdel_ok \in BOOLEAN :
            LET rem == Removal(ClassifiedError(pending_err, e2), user_id, hdel_ok)
            IN  /\ ~hdel_ok => IsPermanentError(ClassifiedError(pending_err, e2))
                /\ calls' = Append(calls, Call("send_message", "fallback", user_id,
                                               item_i, e2, <<message>>)) \o rem.log
                /\ subscribers' = rem.hash
                /\ pc' = pos.pc
                /\ sub_i' = pos.sub_i
                /\ item_i' = pos.item_i
    /\ pending_err' = NoError
    /\ result' = IF pc' = "done" THEN "Success!" ELSE result
    /\ UNCHANGED <<redis, expired, inv, lambdaVars, loadVars, notify_items,
                   subs_copy, prev, writerVars, bot>>

\* The hosting process ends the invocation (deadline, cancellation) while
\* the dispatch is under way.
Abort ==
    /\ pc \in DispatchPcs
    /\ pc' = "done"
    /\ result' = "aborted"
    /\ UNCHANGED <<storeVars, inv, lambdaVars, loadVars, notifyVars, calls, prev,
                   writerVars, bot>>

\* The retention window of save_state's SETEX (604800 s) runs out between
\* two invocations: the keys of one pipeline expire together.
Expire ==
    /\ pc \in {"idle", "done"}
    /\ DOMAIN redis # {}
    /\ redis' = EmptyMap
    /\ expired' = TRUE
    /\ UNCHANGED <<subscribers, pc, inv, lambdaVars, loadVars, notifyVars, result,
                   calls, prev, writerVars, bot>>

\* tests/test_real_notification.py: notify_new_concerts called with raw
\* show objects of the API.
RawItems == {ShowA, ShowB}

DirectNotify ==
    /\ pc = "idle"
    /\ inv < 1
    /\ inv' = inv + 1
    /\ \E items \in SeqsUpTo(RawItems, MaxItems) : notify_items' = items
    /\ pc' = "notify"
    /\ prev' = [NoPrev EXCEPT !.redis = redis, !.subscribers = subscribers]
    /\ UNCHANGED <<storeVars, lambdaVars, loadVars, item_i, subs_copy, sub_i,
                   pending_err, result, calls, writerVars, bot>>

\* ------------------------------------------------------------ the diff alone
\* Lines 179-188 of lambda_handler on a fetched list and a snapshot as
\* load_last_state returns it after a save of at most one show.
ComputeDiff ==
    /\ pc = "idle"
    /\ inv < 1
    /\ inv' = inv + 1
    /\ \E shows \in SeqsUpTo(DiffShows, MaxDiffFetch), seen \in SeqsUpTo(DiffShows, 1) :
        /\ fetched' = [ok |-> TRUE, shows |-> shows]
        /\ current_concerts' = DictByShowId(get_concerts(TRUE, shows))
        /\ last_concerts' = LoadAll(SavedSnapshot(seen))
        /\ new_concerts' = compute_new(current_concerts', last_concerts')
    /\ pc' = "done"
    /\ result' = "Success!"
    /\ UNCHANGED <<storeVars, old_keys, concert_keys, loaded, last_check, notifyVars,
                   calls, prev, writerVars, bot>>

\* -------------------------------------------------- registry operations
\* add_subscriber, lines 185-201: one HSET; an error is logged and
\* swallowed.
AddSubscriber ==
    /\ pc = "idle"
    /\ inv < MaxOps
    /\ inv' = inv + 1
    /\ \E u \in 1..MaxUsers, name \in FirstNames, ok \in BOOLEAN :
        LET data == user_data(u, name, inv + 1)
        IN  /\ calls' = <<Call("hset", "redis", u, 0,
                               IF ok THEN NoError ELSE RedisError, <<data>>)>>
            /\ subscribers' = IF ok THEN hset(subscribers, u, data) ELSE subscribers
    /\ prev' = [NoPrev EXCEPT !.subscribers = subscribers]
    /\ result' = "returned"
    /\ UNCHANGED <<redis, expired, pc, lambdaVars, loadVars, notifyVars, writerVars, bot>>

\* remove_subscriber, lines 203-212: one HDEL; "not found" is a warning,
\* an error is logged and swallowed.
RemoveSubscriber ==
    /\ pc = "idle"
    /\ inv < MaxOps
    /\ inv' = inv + 1
    /\ \E u \in 1..MaxUsers, ok \in BOOLEAN :
        /\ calls' = <<Call("hdel", "redis", u, 0,
                           IF ok THEN NoError ELSE RedisError, <<>>)>>
        /\ subscribers' = IF ok THEN hdel(subscribers, u) ELSE subscribers
    /\ prev' = [NoPrev EXCEPT !.subscribers = subscribers]
    /\ result' = "returned"
    /\ UNCHANGED <<redis, expired, pc, lambdaVars, loadVars, notifyVars, writerVars, bot>>

\* ------------------------------------------------------------ telegram bot
\* subscribe_command lines 71-89, unsubscribe_command lines 104-113: the
\* message chosen after add_subscriber / remove_subscriber returned; they
\* return nothing, so the message cannot depend on how the write went.
ReplyAfterWrite(cmd, ok) ==
    IF cmd = "subscribe" THEN "subscribed" ELSE "unsubscribed"

\* subscribe_command line 69, unsubscribe_command line 118: the message
\* chosen without a write.
ReplyWithoutWrite(cmd) ==
    IF cmd = "subscribe" THEN "already subscribed" ELSE "weren't subscribed"

\* Lines 64-68 / 100-103: a command arrives and the handler asks
\* subscriber_exists (HEXISTS, not guarded: an error leaves the handler).
BotCommand ==
    /\ bot.pc = "idle"
    /\ \E cmd \in {"subscribe", "unsubscribe"}, u \in 1..MaxUsers, ok \in BOOLEAN :
        LET exists == u \in UserIds(subscribers)
            write == (cmd = "subscribe") # exists
        IN  bot' = [pc |-> IF ~ok THEN "raised" ELSE IF write THEN "write" ELSE "reply",
                    cmd |-> cmd, user |-> u, exists |-> ok /\ exists,
                    reply |-> IF ok /\ ~write THEN ReplyWithoutWrite(cmd) ELSE "none",
                    member |-> FALSE]
    /\ UNCHANGED <<storeVars, pc, inv, lambdaVars, loadVars, notifyVars, result,
                   calls, prev, writerVars>>

\* Lines 71-75 / 104: add_subscriber or remove_subscriber; either swallows
\* an error of its Redis call.
BotWrite ==
    /\ bot.pc = "write"
    /\ \E name \in FirstNames, ok \in BOOLEAN :
        /\ subscribers' =
              IF ~ok THEN subscribers
              ELSE IF bot.cmd = "subscribe"
                   THEN hset(subscribers, bot.user, user_data(bot.user, name, inv))
                   ELSE hdel(subscribers, bot.user)
        /\ bot' = [bot EXCEPT !.pc = "reply", !.reply = ReplyAfterWrite(bot.cmd, ok)]
    /\ UNCHANGED <<redis, expired, pc, inv, lambdaVars, loadVars, notifyVars, result,
                   calls, prev, writerVars>>

\* Lines 94 / 120: reply_text(message).
BotReply ==
    /\ bot.pc = "reply"
    /\ bot' = [bot EXCEPT !.pc = "done",
                          !.member = bot.user \in UserIds(subscribers)]
    /\ UNCHANGED <<storeVars, pc, inv, lambdaVars, loadVars, notifyVars, result,
                   calls, prev, writerVars>>

\* --------------------------------------------------------- specifications
Next ==
    \/ Invoke
    \/ LoadKeys
    \/ LoadGet
    \/ LoadMeta
    \/ Diff
    \/ SaveKeys
    \/ SaveExec
    \/ NotifyStart
    \/ ItemStart
    \/ SendPrimary
    \/ Abort
    \/ Expire

Spec == Init /\ [][Next]_vars

\* The steps of a running invocation: the interpreter goes on with the
\* handler until it returns, and every external call comes back (the HTTP
\* session, the Redis client and the bot all have timeouts).
Step ==
    \/ LoadKeys
    \/ LoadGet
    \/ LoadMeta
    \/ Diff
    \/ SaveKeys
    \/ SaveExec
    \/ NotifyStart
    \/ ItemStart
    \/ SendPrimary

\* Invocations that the host lets run to their end.
NextRun ==
    \/ Invoke
    \/ Step

SpecRun == Init /\ [][NextRun]_vars /\ WF_vars(Step)

InitDispatch ==
    /\ redis = EmptyMap
    /\ subscribers \in Registries(MaxUsers)
    /\ InitLocals

NextDispatch ==
    \/ DirectNotify
    \/ NotifyStart
    \/ ItemStart
    \/ SendPrimary
    \/ SendFallback
    \/ Abort

SpecDispatch == InitDispatch /\ [][NextDispatch]_vars

\* An invocation that overlaps the one above and is in its save_state: the
\* key listing of line 96, then the EXEC of line 125.
WriterKeys ==
    /\ w_pc = "idle"
    /\ \E shows \in UpstreamLists \ {<<>>} :
        w_concerts' = DictByShowId(get_concerts(TRUE, shows))
    /\ w_old_keys' = RedisKeys(redis)
    /\ w_pc' = "exec"
    /\ UNCHANGED <<storeVars, pc, inv, lambdaVars, loadVars, notifyVars, result,
                   calls, prev, w_before, bot>>

WriterExec ==
    /\ w_pc = "exec"
    /\ w_before' = redis
    /\ redis' = PipelineExecute(redis, w_old_keys, w_concerts, inv + 1)
    /\ w_pc' = "done"
    /\ UNCHANGED <<expired, subscribers, pc, inv, lambdaVars, loadVars, notifyVars,
                   result, calls, prev, w_old_keys, w_concerts, bot>>

InitOverlap ==
    /\ redis \in {SavedSnapshot(shows) : shows \in UpstreamLists \ {<<>>}}
    /\ subscribers = <<>>
    /\ InitLocals

NextOverlap ==
    \/ Invoke
    \/ LoadKeys
    \/ LoadGet
    \/ LoadMeta
    \/ Diff
    \/ WriterKeys
    \/ WriterExec

SpecOverlap == InitOverlap /\ [][NextOverlap]_vars

\* Calls of add_subscriber / remove_subscriber on a registry that starts
\* empty.
InitRegistry ==
    /\ redis = EmptyMap
    /\ subscribers = <<>>
    /\ InitLocals

NextRegistry ==
    \/ AddSubscriber
    \/ RemoveSubscriber

SpecRegistry == InitRegistry /\ [][NextRegistry]_vars

\* One command of the bot next to a dispatch pass of the lambda.
InitBot ==
    /\ redis = EmptyMap
    /\ subscribers \in Registries(MaxLambdaUsers)
    /\ InitLocals

NextBot ==
    \/ DirectNotify
    \/ NotifyStart
    \/ ItemStart
    \/ SendPrimary
    \/ SendFallback
    \/ BotCommand
    \/ BotWrite
    \/ BotReply

SpecBot == InitBot /\ [][NextBot]_vars

\* The diff on every fetched list and snapshot of the bounds.
NextDiff ==
    \/ ComputeDiff

SpecDiff == InitRegistry /\ [][NextDiff]_vars

\* ------------------------------------------------------- claim vocabulary
IsTransport(c) == c.op \in {"send_photo", "send_message"}

IsPrimary(c) == IsTransport(c) /\ c.role = "primary"

IsFallback(c) == c.op = "send_message" /\ c.role = "fallback"

\* save_state has returned: its EXEC came back, or its key listing raised.
SaveReturned(c) ==
    c.op = "pipe.execute" \/ (c.op = "save.keys" /\ c.err # NoError)

SaveFailed(c) == c.op \in {"pipe.execute", "save.keys"} /\ c.err # NoError

LoadClean ==
    \A i \in 1..Len(calls) :
        calls[i].op \in {"keys", "get", "get_metadata"} => calls[i].err = NoError

RegistryClean ==
    \A i \in 1..Len(calls) :
        calls[i].op \in {"hlen", "hgetall", "hdel"} => calls[i].err = NoError

\* The diff of this invocation has been computed.
DiffDone ==
    \/ pc \in {"save_keys", "save_exec"} \cup DispatchPcs
    \/ pc = "done" /\ result \in {"Success!", "aborted"}

\* The messages the claims call permanent-classified and
\* attachment-classified, listed from the transport's error set.
ClaimPermanent == {ErrChat, ErrBlocked, ErrPhotoChat}

ClaimAttachment == {ErrPhoto, ErrPhotoChat}

PassCompleted == pc = "done" /\ result = "Success!"

\* C1: in an invocation of lambda_handler every transport call comes after
\* save_state was called and has returned.
C1_SaveBeforeTransport ==
    \A i \in 1..Len(calls) :
        IsTransport(calls[i]) =>
            /\ new_concerts # <<>>
            /\ \E j \in 1..(i - 1) : SaveReturned(calls[j])

C1_Witness ==
    /\ new_concerts # <<>>
    /\ \E i \in 1..Len(calls) : IsTransport(calls[i])

\* C2: after an invocation that saved the snapshot and whose dispatch was
\* then aborted, the next invocation with the same upstream answer (the
\* load succeeding, no entry expired) finds nothing new, writes nothing
\* and sends nothing.
C2_RerunIsNoChange ==
    ( /\ prev.valid /\ prev.persist /\ prev.save_ok /\ prev.aborted
      /\ fetched = prev.fetched
      /\ ~prev.expired
      /\ LoadClean
      /\ DiffDone )
    => /\ new_concerts = <<>>
       /\ \A i \in 1..Len(calls) :
            ~IsTransport(calls[i]) /\ calls[i].op \notin {"save.keys", "pipe.execute"}

\* C3: an invocation whose save_state failed does not dispatch: it makes no
\* transport call and does not end as a success.
C3_NoDispatchAfterFailedSave ==
    (\E j \in 1..Len(calls) : SaveFailed(calls[j]))
    => /\ pc \notin DispatchPcs
       /\ \A i \in 1..Len(calls) : ~IsTransport(calls[i])
       /\ pc = "done" => result # "Success!"

\* C4: once the diff is computed, a concert of current_concerts is in it
\* exactly when its show_id is no key of the loaded snapshot; a fetched
\* concert whose show_id is a key of the snapshot is not in it, whatever its
\* other fields, and every fetched show_id that is no key has its concert in
\* it.
C4_DiffIsNewIdsOnly ==
    DiffDone =>
        LET fetched_concerts == Range(get_concerts(fetched.ok, fetched.shows))
            known == DOMAIN last_concerts
        IN  /\ \A i \in 1..Len(current_concerts) :
                 (current_concerts[i].v \in Range(new_concerts))
                     <=> (current_concerts[i].k \notin known)
            /\ Range(new_concerts) \subseteq fetched_concerts
            /\ \A c \in fetched_concerts :
                 /\ c.show_id \in known => c \notin Range(new_concerts)
                 /\ c.show_id \notin known =>
                        \E n \in Range(new_concerts) : n.show_id = c.show_id

\* A concert whose show_id is in the snapshot with another price is not
\* reported, next to one that is new.
C4_Witness ==
    /\ DiffDone
    /\ \E i \in 1..Len(current_concerts) :
         /\ current_concerts[i].k \in DOMAIN last_concerts
         /\ last_concerts[current_concerts[i].k].price # current_concerts[i].v.price
         /\ current_concerts[i].v \notin Range(new_concerts)
    /\ new_concerts # <<>>

\* C5: right after a successful save_state of the concerts of a fetch with
\* distinct show_ids, the snapshot load_last_state returns leaves nothing
\* of those concerts new.
C5_SavedSnapshotHidesAll ==
    ( /\ pc = "notify"
      /\ calls # <<>>
      /\ Last(calls).op = "pipe.execute" /\ Last(calls).err = NoError
      /\ NoDup([i \in 1..Len(fetched.shows) |-> fetched.shows[i].showId]) )
    => compute_new(current_concerts, LoadAll(redis)) = <<>>

\* C6: a load_last_state that meets no error returns the whole snapshot as
\* it was before an overlapping save_state or the whole snapshot after it.
C6_LoadSeesWholeSnapshot ==
    (pc = "diff" /\ LoadClean)
    => \/ last_concerts = LoadAll(redis)
       \/ w_pc = "done" /\ last_concerts = LoadAll(w_before)

\* Log positions of the transport calls to user u for item k.
SendsTo(u, k) ==
    {i \in 1..Len(calls) : IsTransport(calls[i]) /\ calls[i].user = u /\ calls[i].item = k}

PrimariesTo(u, k) == {i \in SendsTo(u, k) : IsPrimary(calls[i])}

\* C7: with the registry answering every call, once a delivery to a
\* subscriber failed with a permanent-classified error no later transport
\* call of the pass goes to that subscriber, and at the end of the pass the
\* subscriber is out of the registry.
C7_NoSendAfterPermanent ==
    RegistryClean =>
        \A i \in 1..Len(calls) :
            (IsTransport(calls[i]) /\ calls[i].err \in ClaimPermanent) =>
                /\ \A j \in (i + 1)..Len(calls) :
                     ~(IsTransport(calls[j]) /\ calls[j].user = calls[i].user)
                /\ PassCompleted => calls[i].user \notin UserIds(subscribers)

\* C8: in a completed pass with the registry answering every call, where
\* every primary delivery either succeeded or failed with a
\* permanent-classified error, the registry ends up holding exactly the
\* subscribers whose deliveries succeeded, and each of them got exactly one
\* transport call per item.
C8_Scenario ==
    /\ PassCompleted
    /\ RegistryClean
    /\ \A i \in 1..Len(calls) :
         IsPrimary(calls[i]) => calls[i].err \in {NoError} \cup ClaimPermanent

C8_PermanentFailureCleanup ==
    C8_Scenario =>
        LET tried == {calls[i].user : i \in {j \in 1..Len(calls) : IsPrimary(calls[j])}}
            failed == {calls[i].user :
                         i \in {j \in 1..Len(calls) :
                                  IsPrimary(calls[j]) /\ calls[j].err # NoError}}
        IN  /\ tried # {} => UserIds(subscribers) = tried \ failed
            /\ \A u \in tried \ failed :
                 \A k \in 1..Len(notify_items) : Cardinality(SendsTo(u, k)) = 1

\* A blocked subscriber is gone after the first item while another one is
\* served for both items.
C8_Witness ==
    /\ C8_Scenario
    /\ Len(notify_items) = 2
    /\ \E i \in 1..Len(calls) :
         /\ IsPrimary(calls[i]) /\ calls[i].err = ErrBlocked /\ calls[i].item = 1
         /\ calls[i].user \notin UserIds(subscribers)
    /\ \E u \in UserIds(subscribers) : PrimariesTo(u, 2) # {}

\* The subscriber/item pairs whose send_photo failed with an
\* attachment-classified error and whose handling is over.
AttachmentFailures ==
    {i \in 1..Len(calls) :
        /\ calls[i].op = "send_photo"
        /\ calls[i].err \in ClaimAttachment
        /\ ~(i = Len(calls) /\ (pc = "fallback" \/ result = "aborted"))}

FallbacksAfter(i) ==
    {j \in (i + 1)..Len(calls) :
        IsFallback(calls[j]) /\ calls[j].user = calls[i].user
                             /\ calls[j].item = calls[i].item}

RemovalsAfter(i) ==
    {j \in (i + 1)..Len(calls) :
        calls[j].op = "hdel" /\ calls[j].user = calls[i].user
                             /\ calls[j].item = calls[i].item}

C10_FailureIsolation ==
    PassCompleted =>
        /\ \A h \in 1..Len(calls) :
             calls[h].op = "hgetall" =>
                \A x \in 1..Len(calls[h].list) :
                    Cardinality(PrimariesTo(calls[h].list[x], calls[h].item)) = 1
        /\ \A i \in 1..Len(calls) : \A k \in 1..Len(notify_items) :
             ( /\ IsPrimary(calls[i])
               /\ calls[i].item < k
               /\ \A j \in 1..Len(calls) :
                    (IsPrimary(calls[j]) /\ calls[j].user = calls[i].user
                                         /\ calls[j].item < k)
                        => calls[j].err \notin ClaimPermanent
               /\ \E h \in 1..Len(calls) :
                    /\ calls[h].op = "hgetall" /\ calls[h].err = NoError
                    /\ calls[h].item = k )
             => PrimariesTo(calls[i].user, k) # {}

\* A failing fallback and a failing removal early in the list, with the
\* deliveries after them made.
C10_Witness ==
    /\ PassCompleted
    /\ Len(notify_items) = 2
    /\ \E f, r, a, b \in 1..Len(calls) :
         /\ IsFallback(calls[f]) /\ calls[f].err # NoError /\ calls[f].item = 1
         /\ calls[r].op = "hdel" /\ calls[r].err # NoError
         /\ IsPrimary(calls[a]) /\ a > f /\ calls[a].item = 1
         /\ IsPrimary(calls[b]) /\ calls[b].item = 2 /\ calls[b].user = calls[f].user

\* The calls load_last_state makes.
LoadOps == {"keys", "get", "get_metadata"}

LoadReturned == pc \notin {"idle", "load_keys", "load_get", "load_meta"}

LoadErrored == \E i \in 1..Len(calls) : calls[i].op \in LoadOps /\ calls[i].err # NoError

\* C11: when a Redis call of load_last_state raised (the key listing, a
\* value read or the metadata read), the load returned the empty mapping
\* and no timestamp, the handler went on to the diff (nothing was raised
\* into it), and the raising call was the last call of the load.
C11_LoadFailsSoft ==
    (LoadReturned /\ LoadErrored) =>
        /\ last_concerts = EmptyMap
        /\ last_check = 0
        /\ result # "None"
        /\ \A i, j \in 1..Len(calls) :
             (calls[i].op \in LoadOps /\ calls[i].err # NoError /\ i < j)
                => calls[j].op \notin LoadOps

\* The metadata read raised after a record had been read into the mapping.
C11_Witness ==
    /\ pc = "diff"
    /\ redis # EmptyMap
    /\ \E i, j \in 1..Len(calls) :
         /\ calls[i].op = "get" /\ calls[i].err = NoError
         /\ calls[j].op = "get_metadata" /\ calls[j].err # NoError
    /\ last_concerts = EmptyMap

\* The Source Adapter was called in this invocation and gave no records.
NoRecords ==
    /\ inv > 0
    /\ calls # <<>>
    /\ calls[1].op = "ping" /\ calls[1].err = NoError
    /\ get_concerts(fetched.ok, fetched.shows) = <<>>

\* C12: when get_concerts gives no records (the fetch failed or the listing
\* is empty) the invocation is over, its only external call is the
\* connection test of the cache constructor, the registry is as the
\* invocation found it and so is the keyspace (unless its entries expired
\* meanwhile).
C12_NoRecordsNoOp ==
    NoRecords =>
        /\ pc = "done"
        /\ Len(calls) = 1
        /\ subscribers = prev.subscribers
        /\ ~expired => redis = prev.redis

\* A failed fetch in an invocation that found a snapshot and subscribers.
C12_Witness ==
    /\ NoRecords
    /\ ~fetched.ok
    /\ ~expired
    /\ redis # EmptyMap
    /\ subscribers # <<>>

\* The invocation computed an empty diff.
NoChange == DiffDone /\ new_concerts = <<>>

\* C13: an invocation whose diff is empty is over once the diff is known;
\* its external calls are the connection test and the reads of the load,
\* the registry is as the invocation found it and so is the keyspace,
\* metadata included (unless its entries expired meanwhile).
C13_NoChangeWritesNothing ==
    NoChange =>
        /\ pc = "done"
        /\ \A i \in 1..Len(calls) : calls[i].op \in LoadOps \cup {"ping"}
        /\ subscribers = prev.subscribers
        /\ ~expired => redis = prev.redis

\* An empty diff against a snapshot that was read back, with subscribers.
C13_Witness ==
    /\ NoChange
    /\ LoadClean
    /\ ~expired
    /\ last_concerts # EmptyMap
    /\ subscribers # <<>>

\* What lambda_handler returns on its success paths and on an empty
\* listing.
SuccessResults == {"Success!"}

NeutralResults == {"No concerts found"}

FetchFailed ==
    /\ inv > 0
    /\ calls # <<>>
    /\ calls[1].op = "ping" /\ calls[1].err = NoError
    /\ ~fetched.ok

\* C14: an invocation in which the fetch failed, or in which a call of
\* save_state raised, returns something other than the success results and
\* the result of an empty listing.
C14_FailureIsErrorShaped ==
    (pc = "done" /\ (FetchFailed \/ \E i \in 1..Len(calls) : SaveFailed(calls[i])))
        => result \notin SuccessResults \cup NeutralResults

\* C15: once notify_new_concerts was called with an empty list no external
\* call is ever made: no count, no list, no send.
C15_EmptyBatchNoCalls ==
    (inv > 0 /\ notify_items = <<>>) =>
        /\ calls = <<>>
        /\ pc \in {"notify", "done"}

\* The call with the empty list has returned, with subscribers registered.
C15_Witness ==
    /\ inv > 0
    /\ notify_items = <<>>
    /\ pc = "done"
    /\ Len(subscribers) = MaxUsers

\* C16: once get_subscriber_count returned 0 in notify_new_concerts, no
\* list is read and no send is made, however many items there are.
C16_ZeroCountNoSends ==
    \A i \in 1..Len(calls) :
        (calls[i].op = "hlen" /\ calls[i].item = 0) =>
            /\ \A j \in 1..Len(calls) : ~IsTransport(calls[j]) /\ calls[j].op # "hgetall"
            /\ pc = "done"

\* Two items and an empty registry.
C16_Witness ==
    /\ Len(notify_items) = 2
    /\ subscribers = <<>>
    /\ \E i \in 1..Len(calls) :
         calls[i].op = "hlen" /\ calls[i].item = 0 /\ calls[i].err = NoError
    /\ pc = "done"

\* The entry the registry holds for user u.
EntryOf(hash, u) == CHOOSE e \in Range(hash) : e.user_id = u

\* C17: the registry never holds two entries of one user_id; an
\* add_subscriber for a user_id already there leaves the set of user_ids
\* and the count as they were and, when its HSET went through, puts the
\* new value in that user's entry and touches no other entry; a
\* remove_subscriber for an absent user_id returns with the registry as it
\* was.
C17_RegistryIdempotent ==
    /\ Cardinality(UserIds(subscribers)) = Len(subscribers)
    /\ calls # <<>> =>
        LET c == calls[1]
            before == prev.subscribers
        IN  /\ (c.op = "hset" /\ c.user \in UserIds(before)) =>
                 /\ UserIds(subscribers) = UserIds(before)
                 /\ Len(subscribers) = Len(before)
                 /\ c.err = NoError => EntryOf(subscribers, c.user) = c.list[1]
                 /\ \A u \in UserIds(before) \ {c.user} :
                      EntryOf(subscribers, u) = EntryOf(before, u)
            /\ (c.op = "hdel" /\ c.user \notin UserIds(before)) =>
                 /\ subscribers = before
                 /\ result = "returned"

\* A second add_subscriber of a user gave the entry a new name and time,
\* next to another user's entry.
C17_Witness ==
    /\ calls # <<>>
    /\ calls[1].op = "hset" /\ calls[1].err = NoError
    /\ calls[1].user \in UserIds(prev.subscribers)
    /\ Len(subscribers) = 2
    /\ EntryOf(prev.subscribers, calls[1].user).first_name
         # EntryOf(subscribers, calls[1].user).first_name

\* C18: when the reply of subscribe_command ("subscribed" or "already
\* subscribed") is sent the user is in the registry, and when the reply of
\* unsubscribe_command ("unsubscribed" or "weren't subscribed") is sent the
\* user is not.
C18_ReplyIsMembership ==
    bot.pc = "done" =>
        /\ bot.reply \in {"subscribed", "already subscribed"} => bot.member
        /\ bot.reply \in {"unsubscribed", "weren't subscribed"} => ~bot.member

\* The list lambda_handler gets from get_concerts in this invocation.
CurrentList == get_concerts(fetched.ok, fetched.shows)

ShowIdsOf(l) == [i \in 1..Len(l) |-> l[i].show_id]

\* r can be had from l by leaving elements out.
RECURSIVE IsSubseq(_, _)
IsSubseq(r, l) ==
    IF r = <<>> THEN TRUE
    ELSE IF l = <<>> THEN FALSE
    ELSE IF Head(r) = Head(l) THEN IsSubseq(Tail(r), Tail(l))
    ELSE IsSubseq(r, Tail(l))

\* The elements of l whose show_id occurs in no earlier element.
FirstOccurrences(l) ==
    LET F[i \in 0..Len(l)] ==
            IF i = 0 THEN <<>>
            ELSE IF \E j \in 1..(i - 1) : l[j].show_id = l[i].show_id
                 THEN F[i - 1] ELSE Append(F[i - 1], l[i])
    IN  F[Len(l)]

\* The last element of l with the show_id id.
LastWithId(l, id) ==
    l[CHOOSE i \in 1..Len(l) :
        /\ l[i].show_id = id
        /\ \A j \in (i + 1)..Len(l) : l[j].show_id # id]

IsNewId(rec) == rec.show_id \notin DOMAIN last_concerts

\* C19 as claimed: for any current list the diff is a subsequence of it,
\* and with an empty snapshot it is the list itself.
C19_DiffIsSubsequence ==
    pc = "done" =>
        /\ IsSubseq(new_concerts, CurrentList)
        /\ last_concerts = EmptyMap => new_concerts = CurrentList

\* C19 as amended: the show_ids of the diff are the new show_ids of the
\* current list in the order of their first occurrence, each with the
\* record of its last occurrence; so for a list of unique show_ids the
\* diff is a subsequence of the list, and the list itself when the
\* snapshot is empty.
C19_DiffFollowsFirstOccurrence ==
    pc = "done" =>
        /\ ShowIdsOf(new_concerts)
             = ShowIdsOf(SelectSeq(FirstOccurrences(CurrentList), IsNewId))
        /\ \A i \in 1..Len(new_concerts) :
             new_concerts[i] = LastWithId(CurrentList, new_concerts[i].show_id)
        /\ NoDup(ShowIdsOf(CurrentList)) =>
             /\ IsSubseq(new_concerts, CurrentList)
             /\ last_concerts = EmptyMap => new_concerts = CurrentList

\* Three shows of unique show_ids, two of them on one evening, and an
\* empty snapshot.
C19_Witness ==
    /\ pc = "done"
    /\ Len(CurrentList) = 3
    /\ NoDup(ShowIdsOf(CurrentList))
    /\ last_concerts = EmptyMap
    /\ new_concerts = CurrentList
    /\ fetched.shows # [i \in 1..3 |-> CurrentList[i].raw_data]

\* The invocation before this one saved a snapshot holding the show
\* IdPlain, this one fetched that show again, read the store without an
\* error and has computed its diff.
SavedShowFetchedAgain ==
    /\ prev.valid /\ prev.persist /\ prev.save_ok
    /\ \E i \in 1..Len(prev.fetched.shows) : prev.fetched.shows[i].showId = IdPlain
    /\ \E i \in 1..Len(fetched.shows) : fetched.shows[i].showId = IdPlain
    /\ LoadClean
    /\ DiffDone

\* C20: a show that was saved in the snapshot and is fetched again is not
\* in the diff, whether or not the retention window of its entry (the TTL
\* of SETEX, which only a save renews) ran out in between.
C20_RetentionNotReliedOn ==
    SavedShowFetchedAgain =>
        \A i \in 1..Len(new_concerts) : new_concerts[i].show_id # IdPlain

\* What lambda_handler hands back to the host: one of its two return
\* statements, or the None of its except block.
Returned == {"No concerts found", "Success!", "None"}

Running == pc \notin {"idle", "done"}

\* C21: an invocation that the host lets run always comes to its end,
\* whatever calls of the API, of Redis and of the transport fail, and it
\* ends by returning to the host.
C21_AlwaysReturns ==
    /\ [](pc = "done" => result \in Returned)
    /\ Running ~> (pc = "done")

\* An invocation that returned after a failed load, a failed save, a
\* failed count or list of the registry and so no delivery.
C21_Witness ==
    /\ pc = "done"
    /\ result \in Returned
    /\ \E i, j, k \in 1..Len(calls) :
         /\ calls[i].op \in LoadOps /\ calls[i].err # NoError
         /\ SaveFailed(calls[j])
         /\ calls[k].op \in {"hlen", "hgetall"} /\ calls[k].err # NoError

\* The fetch of this invocation answered one show with a showId, an empty
\* price and no title of its own, and the store held no concert when the
\* invocation began and was loaded without an error.
C22_Scenario ==
    /\ DiffDone
    /\ fetched.ok
    /\ Len(fetched.shows) = 1
    /\ fetched.shows[1].showId # <<>>
    /\ fetched.shows[1].showPrice = ""
    /\ Get(fetched.shows[1], "showTitle", "") \in {"", fetched.shows[1].showName}
    /\ RedisKeys(prev.redis) = {}
    /\ LoadClean

\* C22: in that invocation the diff is the parsed record of the show and
\* nothing else; once the save went through, the concert keys of the store
\* are the key of that showId and no other; and every message sent has TBA
\* as its price and no title line.
C22_EndToEnd ==
    C22_Scenario =>
        /\ new_concerts = <<parse_show(fetched.shows[1])>>
        /\ ( /\ ~expired
             /\ \E j \in 1..Len(calls) :
                  calls[j].op = "pipe.execute" /\ calls[j].err = NoError )
           => RedisKeys(redis) = {get_concert_key(fetched.shows[1].showId)}
        /\ \A i \in 1..Len(calls) :
             IsTransport(calls[i]) =>
                /\ calls[i].list[1].price_text = <<"TBA">>
                /\ calls[i].list[1].title_line = <<>>

\* The show was saved and its message went out.
C22_Witness ==
    /\ C22_Scenario
    /\ ~expired
    /\ \E j \in 1..Len(calls) :
         calls[j].op = "pipe.execute" /\ calls[j].err = NoError
    /\ \E i \in 1..Len(calls) : IsTransport(calls[i]) /\ calls[i].err = NoError

\* The hgetall of item k in the log, and the users of the primary
\* deliveries of item k in log order.
ReadsFor(k) == SelectSeq(calls, LAMBDA c : c.op = "hgetall" /\ c.item = k)

VisitedFor(k) ==
    LET prim == SelectSeq(calls, LAMBDA c : IsPrimary(c) /\ c.item = k)
    IN  [i \in 1..Len(prim) |-> prim[i].user]

IsPrefix(s, t) == Len(s) <= Len(t) /\ s = SubSeq(t, 1, Len(s))

\* C23: the transport calls of a pass go item by item in the order of the
\* batch, each carrying the message of its item; the registry is read once
\* per item before the first delivery of the item, for every item of a
\* pass that got past the subscriber count; and the subscribers of an item
\* are visited in the order of that read, all of them when the pass
\* completes.
C23_FanOutOrder ==
    /\ \A i, j \in 1..Len(calls) :
         (IsTransport(calls[i]) /\ IsTransport(calls[j]) /\ i < j)
            => calls[i].item <= calls[j].item
    /\ \A i \in 1..Len(calls) :
         IsTransport(calls[i]) =>
            /\ calls[i].item \in 1..Len(notify_items)
            /\ calls[i].list = <<format_single_concert_message(notify_items[calls[i].item])>>
            /\ \E j \in 1..(i - 1) :
                 calls[j].op = "hgetall" /\ calls[j].item = calls[i].item
    /\ \A k \in 1..Len(notify_items) :
         /\ Len(ReadsFor(k)) <= 1
         /\ ReadsFor(k) # <<>> =>
              /\ IsPrefix(VisitedFor(k), ReadsFor(k)[1].list)
              /\ PassCompleted => VisitedFor(k) = ReadsFor(k)[1].list
              /\ \A h \in 1..(k - 1) : ReadsFor(h) # <<>>
         /\ (PassCompleted /\ ReadsFor(1) # <<>>) => ReadsFor(k) # <<>>

\* Two items went to two subscribers, the first of whom was removed during
\* the first item.
C23_Witness ==
    /\ PassCompleted
    /\ Len(notify_items) = 2
    /\ Len(VisitedFor(1)) = 2
    /\ Len(VisitedFor(2)) = 1
    /\ VisitedFor(2)[1] = VisitedFor(1)[2]

\* The loop over the subscribers of item k has ended.
ItemPassEnded(k) == PassCompleted \/ ReadsFor(k + 1) # <<>>

\* C24: whatever the dispatcher or a command of the bot takes out of the
\* registry while the loop of an item runs, every subscriber of the list
\* read for the item gets at most one primary delivery of the item, and
\* exactly one by the end of the loop, and nobody else gets one.
C24_IterationKeepsItsList ==
    \A k \in 1..Len(notify_items) :
        ReadsFor(k) # <<>> =>
            LET read == ReadsFor(k)[1].list
            IN  /\ \A i \in 1..Len(read) :
                     /\ Cardinality(PrimariesTo(read[i], k)) <= 1
                     /\ ItemPassEnded(k) => Cardinality(PrimariesTo(read[i], k)) = 1
                /\ \A u \in 1..MaxUsers :
                     PrimariesTo(u, k) # {} => u \in Range(read)

\* The first of two subscribers was removed by the dispatcher on a
\* permanent error, and the second was still served.
C24_Witness ==
    /\ PassCompleted
    /\ ReadsFor(1) # <<>>
    /\ Len(ReadsFor(1)[1].list) = 2
    /\ \E i, j \in 1..Len(calls) :
         /\ i < j
         /\ calls[i].op = "hdel" /\ calls[i].err = NoError
         /\ calls[i].user = ReadsFor(1)[1].list[1] /\ calls[i].item = 1
         /\ IsPrimary(calls[j]) /\ calls[j].item = 1
         /\ calls[j].user = ReadsFor(1)[1].list[2]
    /\ ReadsFor(1)[1].list[1] \notin UserIds(subscribers)

\* Failed primary deliveries whose message is neither
\* attachment-classified nor permanent-classified.
TransientFailures ==
    {i \in 1..Len(calls) :
        /\ IsPrimary(calls[i])
        /\ calls[i].err # NoError
        /\ calls[i].err \notin ClaimAttachment \cup ClaimPermanent}

\* C25: after a delivery that failed with an error that is neither
\* attachment-classified nor permanent-classified, no other transport call
\* and no removal is made for that subscriber and item; a pass leaves the
\* snapshot as it was, adds nobody to the registry, and takes out of it
\* only subscribers to whom a delivery of the pass failed with a
\* permanent-classified error.
C25_PassFrame ==
    (pc \in DispatchPcs \cup {"done"} /\ notify_items # <<>>) =>
        /\ \A i \in TransientFailures :
             /\ SendsTo(calls[i].user, calls[i].item) = {i}
             /\ RemovalsAfter(i) = {}
        /\ redis = prev.redis
        /\ UserIds(subscribers) \subseteq UserIds(prev.subscribers)
        /\ IsSubseq(subscribers, prev.subscribers)
        /\ \A u \in UserIds(prev.subscribers) \ UserIds(subscribers) :
             \E i \in 1..Len(calls) :
                /\ IsTransport(calls[i])
                /\ calls[i].user = u
                /\ calls[i].err \in ClaimPermanent

\* A pass in which one subscriber's delivery timed out and the subscriber
\* stayed, while another was removed after a permanent error.
C25_Witness ==
    /\ PassCompleted
    /\ \E i \in TransientFailures : calls[i].user \in UserIds(subscribers)
    /\ UserIds(prev.subscribers) \ UserIds(subscribers) # {}

\* Log positions of the send_photo calls and of the send_message calls to
\* user u for item k.
RichTo(u, k) == {i \in SendsTo(u, k) : calls[i].op = "send_photo"}

TextTo(u, k) == {i \in SendsTo(u, k) : calls[i].op = "send_message"}

\* C26: in a pass, for every item and subscriber there is at most one
\* send_photo and at most one send_message; where there are both, the
\* send_message comes after the send_photo and the send_photo failed; and
\* at most one of the calls succeeded.
C26_AtMostOncePerPair ==
    \A k \in 1..Len(notify_items), u \in 1..MaxUsers :
        /\ Cardinality(RichTo(u, k)) <= 1
        /\ Cardinality(TextTo(u, k)) <= 1
        /\ \A i \in RichTo(u, k), j \in TextTo(u, k) :
             i < j /\ calls[i].err # NoError
        /\ Cardinality({i \in SendsTo(u, k) : calls[i].err = NoError}) <= 1

\* A subscriber whose photo failed and whose text went through, in a
\* completed pass of two items.
C26_Witness ==
    /\ PassCompleted
    /\ Len(notify_items) = 2
    /\ \E k \in 1..Len(notify_items), u \in 1..MaxUsers :
         /\ RichTo(u, k) # {}
         /\ \E j \in TextTo(u, k) : calls[j].err = NoError

\* save_state has just returned from an EXEC that went through.
JustSaved ==
    /\ pc = "notify"
    /\ calls # <<>>
    /\ Last(calls).op = "pipe.execute"
    /\ Last(calls).err = NoError

\* C27: right after a save_state that went through, the concert keys of
\* the store are the keys of the show_ids of the saved mapping and no
\* others, each holding the serialised record of its show_id, and the
\* total_concerts of the stored metadata is the number of concert keys.
C27_WholesaleReplace ==
    JustSaved =>
        /\ RedisKeys(redis) = {get_concert_key(k) : k \in DictKeys(current_concerts)}
        /\ \A i \in 1..Len(current_concerts) :
             redis[get_concert_key(current_concerts[i].k)]
                = StoredForm(current_concerts[i].v)
        /\ get_metadata_key \in DOMAIN redis
        /\ redis[get_metadata_key].total_concerts = Cardinality(RedisKeys(redis))

\* A save that dropped a key of the snapshot before it, with nothing
\* expired in between.
C27_Witness ==
    /\ JustSaved
    /\ ~expired
    /\ \E k \in RedisKeys(prev.redis) : k \notin RedisKeys(redis)
    /\ RedisKeys(redis) # {}

\* The show_ids of the list get_concerts returned.
FetchedIds == Range(ShowIdsOf(CurrentList))

\* C28: when the list get_concerts returned holds a show_id more than
\* once, the mapping built from it, the diff handed to the notifier and
\* the saved snapshot each hold one record per show_id, and that record is
\* the last one of the show_id in the list.
C28_DuplicatesLastWins ==
    DiffDone =>
        /\ DictKeys(current_concerts) = FetchedIds
        /\ NoDup([i \in 1..Len(current_concerts) |-> current_concerts[i].k])
        /\ \A i \in 1..Len(current_concerts) :
             current_concerts[i].v = LastWithId(CurrentList, current_concerts[i].k)
        /\ NoDup(ShowIdsOf(new_concerts))
        /\ \A i \in 1..Len(new_concerts) :
             new_concerts[i] = LastWithId(CurrentList, new_concerts[i].show_id)
        /\ pc \in {"item", "send", "fallback"} => notify_items = new_concerts
        /\ JustSaved =>
             /\ Cardinality(RedisKeys(redis)) = Cardinality(FetchedIds)
             /\ \A id \in FetchedIds :
                  redis[get_concert_key(id)] = StoredForm(LastWithId(CurrentList, id))

\* A list with one show_id twice, under two prices, was saved and its
\* record is on its way to the subscribers.
C28_Witness ==
    /\ JustSaved
    /\ Len(CurrentList) = 2
    /\ CurrentList[1].show_id = CurrentList[2].show_id
    /\ CurrentList[1] # CurrentList[2]
    /\ new_concerts = <<CurrentList[2]>>

\* The record handed to the notifier comes from a show with a name, a
\* price, a date and an image.
HasAllFields(concert) ==
    /\ concert.artist \notin {"", "Unknown Artist"}
    /\ concert.price # ""
    /\ concert.date # NoDate
    /\ Get(concert.raw_data, "showImage", "") # ""

\* C29: every delivery lambda_handler makes for a new show that has a
\* name, a price, a date and an image carries a message with that name,
\* that price and that date, and the primary delivery is a send_photo.
C29_MessageShowsRecordFields ==
    \A i \in 1..Len(calls) :
        (IsPrimary(calls[i]) /\ HasAllFields(notify_items[calls[i].item])) =>
            LET concert == notify_items[calls[i].item]
                message == calls[i].list[1]
            IN  /\ message.artist = concert.artist
                /\ message.price_text = <<"NIS", concert.price>>
                /\ message.date_text = <<"on", concert.date>>
                /\ calls[i].op = "send_photo"

\* The invocation before this one fetched, found something new, saved it
\* and handed it to the notifier, nothing expired since, and this
\* invocation's load met no error.
SecondOfTwoCleanRuns ==
    /\ prev.valid /\ prev.persist /\ prev.save_ok
    /\ RedisKeys(prev.redis) = RedisKeys(SavedSnapshot(prev.fetched.shows))
    /\ ~prev.expired
    /\ LoadClean
    /\ DiffDone

\* C30: a show_id that the invocation before handed to the notifier and
\* that is fetched again is not handed to the notifier a second time.
C30_HandedOverOnce ==
    (SecondOfTwoCleanRuns /\ inv = 2) =>
        \A i \in 1..Len(new_concerts) :
            new_concerts[i].show_id \notin Range(ShowIdsOf(get_concerts(TRUE, prev.fetched.shows)))

\* The step in which send_concert_notification reads the registry for the
\* item in hand.
ReadStep == pc = "item" /\ calls' # calls

\* C31: the list of an item is read from the registry when the item
\* begins: it holds nobody who is out of the registry at that moment
\* (whether a command of the bot or the cleanup after a permanent failure
\* took the user out), it is the registry itself when HGETALL answered, and
\* every transport call of the item goes to a user of that list.
C31_ListReadPerItem ==
    /\ [][ReadStep =>
            /\ UserIds(subs_copy') \subseteq UserIds(subscribers)
            /\ Last(calls').err = NoError => subs_copy' = subscribers
            /\ Last(calls').list = [i \in 1..Len(subs_copy') |-> subs_copy'[i].user_id]
            /\ Last(calls').item = item_i]_vars
    /\ [](\A i \in 1..Len(calls) :
             IsTransport(calls[i]) =>
                /\ ReadsFor(calls[i].item) # <<>>
                /\ calls[i].user \in Range(ReadsFor(calls[i].item)[1].list))

\* The only subscriber got the first item and, with every HGETALL answered
\* and no cleanup by the dispatcher, was out of the list read for the second
\* item: the user left after the first read and got the first item, and had
\* left before the second read and did not get the second.
C31_Witness ==
    /\ PassCompleted
    /\ Len(notify_items) = 2
    /\ \A i \in 1..Len(calls) :
         calls[i].op # "hdel" /\ (calls[i].op = "hgetall" => calls[i].err = NoError)
    /\ ReadsFor(1) # <<>> /\ ReadsFor(2) # <<>>
    /\ Len(ReadsFor(1)[1].list) = 1
    /\ ReadsFor(2)[1].list = <<>>
    /\ PrimariesTo(ReadsFor(1)[1].list[1], 1) # {}
    /\ SendsTo(ReadsFor(1)[1].list[1], 2) = {}

\* Text-only retries that failed and whose handling is over.
FailedFallbacks ==
    {j \in 1..Len(calls) :
        /\ IsFallback(calls[j])
        /\ calls[j].err # NoError
        /\ ~(j = Len(calls) /\ result = "aborted")}

\* The primary send that the retry at log position j follows.
PrimaryOf(j) ==
    CHOOSE i \in PrimariesTo(calls[j].user, calls[j].item) : TRUE

\* C32: after a text-only retry that failed, whatever its error, the pair
\* gets no other transport call, the subscriber is removed exactly when the
\* error of the primary send is permanent-classified, and the loop goes on
\* to the subscribers after it.
C32_FallbackErrorIgnored ==
    \A j \in FailedFallbacks :
        LET u == calls[j].user
            k == calls[j].item
            i == PrimaryOf(j)
            removals == {r \in 1..Len(calls) :
                            calls[r].op = "hdel" /\ calls[r].user = u /\ calls[r].item = k}
        IN  /\ PrimariesTo(u, k) # {}
            /\ i < j
            /\ SendsTo(u, k) = {i, j}
            /\ (removals # {}) <=> (calls[i].err \in ClaimPermanent)
            /\ \A r \in removals : j < r
            /\ PassCompleted => VisitedFor(k) = ReadsFor(k)[1].list

\* The retry to the first of two subscribers failed with a
\* permanent-classified error after a photo error that is not one: the
\* subscriber stayed and the second subscriber was served.
C32_Witness ==
    /\ PassCompleted
    /\ \E j \in FailedFallbacks :
         /\ calls[j].err \in ClaimPermanent
         /\ calls[PrimaryOf(j)].err \notin ClaimPermanent
         /\ calls[j].user \in UserIds(subscribers)
         /\ Len(ReadsFor(calls[j].item)[1].list) = 2
         /\ ReadsFor(calls[j].item)[1].list[1] = calls[j].user
         /\ PrimariesTo(ReadsFor(calls[j].item)[1].list[2], calls[j].item) # {}

====
